---- MODULE Spec2Model ----
(***************************************************************************)
(* Wikiversity-Zotero citation comparator.                                 *)
(*                                                                         *)
(* Strings are sequences of one-character strings.  A similarity ratio is  *)
(* the pair of integers [n, d] standing for the float n/d that difflib     *)
(* returns (2.0 * matches / length); comparisons of ratios are made by     *)
(* cross-multiplication, which agrees with the float comparison for the    *)
(* short strings of this model.                                            *)
(***************************************************************************)
EXTENDS Integers, Sequences, FiniteSets, TLC

VARIABLES
    zotero_items,           \* self.zotero_items
    wikiversity_citations,  \* self.wikiversity_citations
    last_call,              \* the method called last: "none", "load", "extract", "compare"
    ret,                    \* what that call returned
    threshold,              \* similarity_threshold of that call, when it is a compare
    wikiversity_urls,       \* the pages to process
    page_outcome,           \* what fetching and parsing each page does
    str1, str2,             \* arguments of a similarity_score call
    score12, score21,       \* its result in both argument orders
    scored,                 \* a similarity_score call has returned
    entry,                  \* the script run: "run_comparison" or "citation_comparator"
    pc,                     \* where its main() is
    credentials,            \* ZOTERO_USER_ID and ZOTERO_API_KEY are both set
    output_formats,         \* config['output_formats']
    api_reply,              \* what the Zotero API does when asked for the library
    constructed,            \* a WikiversityZoteroComparator was constructed
    network,                \* the network requests made so far, in order
    stdout,                 \* the messages printed so far, in order
    files,                  \* the report files written so far
    exit_status,            \* how main() ended
    template,               \* the cite template under study: its type and fields
    context,                \* the templates before and after it on the page
    page_content,           \* the page text, argument of _extract_cite_templates
    cite_templates,         \* what _extract_cite_templates returned
    templates_done          \* it has returned

objVars == <<zotero_items, wikiversity_citations>>
cmpVars == <<last_call, ret, threshold>>
exVars  == <<wikiversity_urls, page_outcome>>
simVars == <<str1, str2, score12, score21, scored>>

mainVars == <<entry, pc, credentials, output_formats, api_reply, constructed,
              network, stdout, files, exit_status>>

tplVars == <<template, context, page_content, cite_templates, templates_done>>

vars == <<objVars, cmpVars, exVars, simVars, mainVars, tplVars>>

----------------------------------------------------------------------------
(* Bounds *)

MaxStrLen == 3
MaxItems  == 2
MaxPages  == 2
MaxParts  == 3

----------------------------------------------------------------------------
(* Strings *)

Min(x, y) == IF x <= y THEN x ELSE y

Range(seq) == {seq[i] : i \in 1..Len(seq)}

Str(chars, n) == UNION {[1..k -> chars] : k \in 0..n}

RECURSIVE SumLen(_)
SumLen(blocks) ==
    IF blocks = <<>> THEN 0 ELSE Head(blocks)[3] + SumLen(Tail(blocks))

----------------------------------------------------------------------------
(* difflib.SequenceMatcher(None, a, b), as similarity_score uses it: no    *)
(* junk predicate; the autojunk heuristic only acts on a second string of  *)
(* 200 characters or more, beyond the strings modelled here.               *)
(* Indices are 0-based and ranges half-open, as in difflib.                *)

BlockAt(a, b, i, j, k) == \A d \in 0..(k - 1) : a[i + d + 1] = b[j + d + 1]

(* The longest block a[i:i+k] == b[j:j+k] inside a[alo:ahi], b[blo:bhi];   *)
(* of the longest ones the one starting earliest in a, and of those the    *)
(* one starting earliest in b; (alo, blo, 0) when nothing matches.         *)
find_longest_match(a, b, alo, ahi, blo, bhi) ==
    LET cands == {c \in (alo..(ahi - 1)) \X (blo..(bhi - 1)) \X (1..Min(ahi - alo, bhi - blo)) :
                     /\ c[1] + c[3] <= ahi
                     /\ c[2] + c[3] <= bhi
                     /\ BlockAt(a, b, c[1], c[2], c[3])}
    IN  IF cands = {} THEN <<alo, blo, 0>>
        ELSE CHOOSE c \in cands :
                \A o \in cands :
                    \/ o[3] < c[3]
                    \/ o[3] = c[3] /\ c[1] < o[1]
                    \/ o[3] = c[3] /\ c[1] = o[1] /\ c[2] <= o[2]

(* The matching blocks, left to right: the longest match, then the same    *)
(* to its left and to its right.                                           *)
RECURSIVE get_matching_blocks(_, _, _, _, _, _)

(* The blocks of a[alo:ahi], b[blo:bhi] whose longest match is (i, j, k). *)
BlocksAround(a, b, alo, ahi, blo, bhi, i, j, k) ==
    IF k = 0 THEN <<>>
    ELSE (IF alo < i /\ blo < j
             THEN get_matching_blocks(a, b, alo, i, blo, j) ELSE <<>>)
         \o << <<i, j, k>> >> \o
         (IF i + k < ahi /\ j + k < bhi
             THEN get_matching_blocks(a, b, i + k, ahi, j + k, bhi) ELSE <<>>)

BlocksAroundMatch(a, b, alo, ahi, blo, bhi, m) ==
    BlocksAround(a, b, alo, ahi, blo, bhi, m[1], m[2], m[3])

get_matching_blocks(a, b, alo, ahi, blo, bhi) ==
    BlocksAroundMatch(a, b, alo, ahi, blo, bhi, find_longest_match(a, b, alo, ahi, blo, bhi))

(* ratio(): 2.0 * matches / length, and 1.0 when both strings are empty.   *)
calculate_ratio(matches, length) ==
    IF length > 0 THEN [n |-> 2 * matches, d |-> length] ELSE [n |-> 1, d |-> 1]

ratio(a, b) ==
    calculate_ratio(SumLen(get_matching_blocks(a, b, 0, Len(a), 0, Len(b))), Len(a) + Len(b))

GE(r, t) == r.n * t.d >= t.n * r.d
GT(r, t) == r.n * t.d > t.n * r.d
EQ(r, t) == r.n * t.d = t.n * r.d

----------------------------------------------------------------------------
(* normalize_title *)

UpperChars == {"A", "B"}
LowerChars == {"a", "b", "c", "d", "x", "y"}
SpaceChars == {" ", "\t"}
WordChars  == UpperChars \cup LowerChars \cup {"_"}

Lower(c) == CASE c = "A" -> "a" [] c = "B" -> "b" [] OTHER -> c

RECURSIVE DropWs(_)
DropWs(s) == IF s # <<>> /\ Head(s) \in SpaceChars THEN DropWs(Tail(s)) ELSE s

RECURSIVE TakeWord(_)
TakeWord(s) ==
    IF s = <<>> \/ Head(s) \in SpaceChars THEN <<>>
    ELSE <<Head(s)>> \o TakeWord(Tail(s))

(* str.split(): the maximal runs of non-whitespace characters. *)
RECURSIVE SplitWs(_)
SplitWs(s) ==
    LET t == DropWs(s)
    IN  IF t = <<>> THEN <<>>
        ELSE LET w == TakeWord(t)
             IN  <<w>> \o SplitWs(SubSeq(t, Len(w) + 1, Len(t)))

(* sep.join(words) *)
RECURSIVE Join(_, _)
Join(words, sep) ==
    IF words = <<>> THEN <<>>
    ELSE IF Len(words) = 1 THEN words[1]
    ELSE words[1] \o sep \o Join(Tail(words), sep)

normalize_title(title) ==
    IF title = <<>> THEN <<>>
    ELSE LET lowered == [i \in 1..Len(title) |-> Lower(title[i])]
             kept    == SelectSeq(lowered, LAMBDA c : c \in WordChars \cup SpaceChars)
         IN  Join(SplitWs(kept), <<" ">>)

----------------------------------------------------------------------------
(* The titles and URLs of the model's citations and library items. *)

NoUrl  == <<>>
UrlA   == <<"h", "t", "/", "a", "b">>
UrlA2  == <<"h", "t", "/", "a", "b", "c">>

TitleExact    == <<"a", "b", "c", "d">>
TitleExactRaw == <<" ", "A", "B", "c", "d", "!">>
TitleNear     == <<"a", "b", "c", "x">>
TitleFar      == <<"x", "y">>
TitleOther    == <<"y", "y">>
TitlePunct    == <<"!">>


(* similarity_score *)
similarity_score(s1, s2) == ratio(s1, s2)

----------------------------------------------------------------------------
(* find_matching_zotero_items *)

UrlMatchRatio == [n |-> 9, d |-> 10]

url_match_of(wiki_url, zot_url) ==
    IF wiki_url # <<>> /\ zot_url # <<>>
    THEN wiki_url = zot_url \/ GT(similarity_score(wiki_url, zot_url), UrlMatchRatio)
    ELSE FALSE

(* Lines 246-252 with the test requiring both conditions. *)
MatchIfQualifies_BothRequired(item, title_similarity, url_match, thr) ==
    IF GE(title_similarity, thr) /\ url_match
    THEN << [zotero_item |-> item,
             title_similarity |-> title_similarity,
             url_match |-> url_match] >>
    ELSE <<>>

(* Lines 246-252: the match appended for an item, or nothing. *)
MatchIfQualifies(item, title_similarity, url_match, thr) ==
    IF GE(title_similarity, thr) \/ url_match
    THEN << [zotero_item |-> item,
             title_similarity |-> title_similarity,
             url_match |-> url_match] >>
    ELSE <<>>

(* Lines 232-252, for an item whose normalized title is zot_title. *)
MatchesForTitledItem(wiki_title, wiki_url, item, zot_title, thr) ==
    IF zot_title = <<>> THEN <<>>
    ELSE MatchIfQualifies(item, similarity_score(wiki_title, zot_title),
                          url_match_of(wiki_url, item.data.url), thr)

(* One pass of the loop over self.zotero_items. *)
MatchesForItem(wiki_title, wiki_url, item, thr) ==
    MatchesForTitledItem(wiki_title, wiki_url, item, normalize_title(item.data.title), thr)

RECURSIVE ScanItems(_, _, _, _)
ScanItems(wiki_title, wiki_url, items, thr) ==
    IF items = <<>> THEN <<>>
    ELSE MatchesForItem(wiki_title, wiki_url, Head(items), thr)
         \o ScanItems(wiki_title, wiki_url, Tail(items), thr)

(* sorted(matches, key=title_similarity, reverse=True): stable, so equal   *)
(* keys keep their order.                                                  *)
RECURSIVE InsertDesc(_, _)
InsertDesc(sorted, m) ==
    IF sorted = <<>> THEN <<m>>
    ELSE IF GE(Head(sorted).title_similarity, m.title_similarity)
         THEN <<Head(sorted)>> \o InsertDesc(Tail(sorted), m)
         ELSE <<m>> \o sorted

RECURSIVE SortDesc(_)
SortDesc(ms) ==
    IF ms = <<>> THEN <<>>
    ELSE InsertDesc(SortDesc(SubSeq(ms, 1, Len(ms) - 1)), ms[Len(ms)])

MatchesForTitle(items, wiki_title, wiki_url, thr) ==
    IF wiki_title = <<>> THEN <<>>
    ELSE SortDesc(ScanItems(wiki_title, wiki_url, items, thr))

find_matching_zotero_items(items, wikiversity_citation, thr) ==
    MatchesForTitle(items, normalize_title(wikiversity_citation.title),
                    wikiversity_citation.url, thr)

----------------------------------------------------------------------------
(* compare_citations *)

EmptyDict == <<>>

IsEmptyDict(r) == DOMAIN r = {}

EmptyResults ==
    [missing_from_zotero |-> <<>>, found_in_zotero |-> <<>>, potential_matches |-> <<>>]

Top3(ms) == SubSeq(ms, 1, Min(3, Len(ms)))

(* Lines 283-294: where a citation goes, given its matches. *)
ClassifyByMatches(results, wiki_citation, matches, thr) ==
    IF matches = <<>>
    THEN [results EXCEPT !.missing_from_zotero = Append(@, wiki_citation)]
    ELSE IF GE(matches[1].title_similarity, thr) \/ matches[1].url_match
    THEN [results EXCEPT !.found_in_zotero =
             Append(@, [wikiversity_citation |-> wiki_citation,
                        zotero_match |-> matches[1]])]
    ELSE [results EXCEPT !.potential_matches =
             Append(@, [wikiversity_citation |-> wiki_citation,
                        possible_matches |-> Top3(matches)])]

(* One pass of the loop over self.wikiversity_citations. *)
Classify(items, results, wiki_citation, thr) ==
    ClassifyByMatches(results, wiki_citation,
                      find_matching_zotero_items(items, wiki_citation, thr), thr)

RECURSIVE ClassifyAll(_, _, _, _)
ClassifyAll(items, results, citations, thr) ==
    IF citations = <<>> THEN results
    ELSE ClassifyAll(items, Classify(items, results, Head(citations), thr),
                     Tail(citations), thr)

(* Lines 296-302: the summary, derived from the lists. *)
WithSummary(results, total) ==
    [missing_from_zotero |-> results.missing_from_zotero,
     found_in_zotero     |-> results.found_in_zotero,
     potential_matches   |-> results.potential_matches,
     summary |-> [total_wikiversity_citations |-> total,
                  found_in_zotero     |-> Len(results.found_in_zotero),
                  missing_from_zotero |-> Len(results.missing_from_zotero),
                  potential_matches   |-> Len(results.potential_matches)]]

compare_citations(items, citations, similarity_threshold) ==
    IF items = <<>> THEN EmptyDict
    ELSE IF citations = <<>> THEN EmptyDict
    ELSE WithSummary(ClassifyAll(items, EmptyResults, citations, similarity_threshold),
                     Len(citations))

----------------------------------------------------------------------------
(* Cite templates.  Text is a sequence of tokens: the characters "{", "}", *)
(* "|", "=" and " ", and words, which hold none of these characters.       *)

LowerWord(w) ==
    CASE w = "Title" -> "title" [] w = "URL" -> "url" [] w = "Cite" -> "cite" [] OTHER -> w

lower(s) == [i \in 1..Len(s) |-> LowerWord(s[i])]

(* str.strip(chars) *)
RECURSIVE lstrip(_, _)
lstrip(s, chars) == IF s # <<>> /\ Head(s) \in chars THEN lstrip(Tail(s), chars) ELSE s

RECURSIVE rstrip(_, _)
rstrip(s, chars) ==
    IF s # <<>> /\ s[Len(s)] \in chars THEN rstrip(SubSeq(s, 1, Len(s) - 1), chars) ELSE s

strip(s, chars) == rstrip(lstrip(s, chars), chars)

Whitespace == {" "}

(* The index of the first sep in s, 0 when there is none. *)
RECURSIVE find(_, _, _)
find(s, sep, from) ==
    IF from > Len(s) THEN 0
    ELSE IF s[from] = sep THEN from
    ELSE find(s, sep, from + 1)

(* str.split(sep): every piece, empty ones included. *)
RECURSIVE split(_, _)

SplitAt(s, sep, at) ==
    IF at = 0 THEN <<s>>
    ELSE <<SubSeq(s, 1, at - 1)>> \o split(SubSeq(s, at + 1, Len(s)), sep)

split(s, sep) == SplitAt(s, sep, find(s, sep, 1))

(* str.replace('cite ', ''), on text whose only word ending in "cite" is   *)
(* "cite" itself.                                                          *)
RECURSIVE remove_cite_prefix(_)
remove_cite_prefix(s) ==
    IF Len(s) < 2 THEN s
    ELSE IF s[1] = "cite" /\ s[2] = " " THEN remove_cite_prefix(SubSeq(s, 3, Len(s)))
    ELSE <<s[1]>> \o remove_cite_prefix(Tail(s))

EmptyCitation(cite_type, raw) ==
    [type |-> cite_type, title |-> <<>>, author |-> <<>>, url |-> <<>>,
     date |-> <<>>, journal |-> <<>>, raw_text |-> raw]

(* Lines 158-170: one key=value pair stored in the citation. *)
SetField(citation, key, value) ==
    IF key = <<"title">> THEN [citation EXCEPT !.title = value]
    ELSE IF key \in {<<"author">>, <<"last">>, <<"first">>}
    THEN IF citation.author # <<>>
         THEN [citation EXCEPT !.author = @ \o <<" ">> \o value]
         ELSE [citation EXCEPT !.author = value]
    ELSE IF key = <<"url">> THEN [citation EXCEPT !.url = value]
    ELSE IF key \in {<<"date">>, <<"year">>} THEN [citation EXCEPT !.date = value]
    ELSE IF key \in {<<"journal">>, <<"website">>} THEN [citation EXCEPT !.journal = value]
    ELSE citation

(* Lines 154-156: part.split('=', 1), the key stripped and lowered, the    *)
(* value stripped.                                                         *)
SetFieldAt(citation, part, eq) ==
    SetField(citation,
             lower(strip(SubSeq(part, 1, eq - 1), Whitespace)),
             strip(SubSeq(part, eq + 1, Len(part)), Whitespace))

(* Lines 153-170: one pass of the loop over parts[1:]. *)
ParsePart(citation, part) ==
    IF "=" \in Range(part) THEN SetFieldAt(citation, part, find(part, "=", 1)) ELSE citation

RECURSIVE ParseParts(_, _)
ParseParts(citation, parts) ==
    IF parts = <<>> THEN citation
    ELSE ParseParts(ParsePart(citation, Head(parts)), Tail(parts))

(* Line 172 with the test on the title left out. *)
TitledOrNone_KeepsUntitled(citation) == <<citation>>

(* Line 172: the citation, or None (no element) when it has no title. *)
TitledOrNone(citation) == IF citation.title # <<>> THEN <<citation>> ELSE <<>>

(* Lines 141-172, for a template already stripped of its braces and split. *)
ParseSplitTemplate(stripped, parts) ==
    TitledOrNone(ParseParts(
        EmptyCitation(remove_cite_prefix(strip(parts[1], Whitespace)), stripped),
        Tail(parts)))

ParseStripped(stripped) == ParseSplitTemplate(stripped, split(stripped, "|"))

parse_cite_template(text) == ParseStripped(strip(text, {"{", "}"}))

(* re.findall(r'\{\{cite[^}]+\}\}', page_content, IGNORECASE | DOTALL): the *)
(* end of the match that starts at token p, 0 when none starts there.      *)
IsCite(w) == w \in {"cite", "Cite"}

MatchEndAt(s, p, close) ==
    IF close >= p + 4 /\ close + 1 <= Len(s) /\ s[close + 1] = "}" THEN close + 1 ELSE 0

MatchEnd(s, p) ==
    IF p + 2 <= Len(s) /\ s[p] = "{" /\ s[p + 1] = "{" /\ IsCite(s[p + 2])
    THEN MatchEndAt(s, p, find(s, "}", p + 3))
    ELSE 0

RECURSIVE findall(_, _)

FindallFrom(s, p, end) ==
    IF end = 0 THEN findall(s, p + 1)
    ELSE <<SubSeq(s, p, end)>> \o findall(s, end + 1)

findall(s, p) == IF p > Len(s) THEN <<>> ELSE FindallFrom(s, p, MatchEnd(s, p))

RECURSIVE ParseMatches(_)
ParseMatches(matches) ==
    IF matches = <<>> THEN <<>>
    ELSE parse_cite_template(Head(matches)) \o ParseMatches(Tail(matches))

extract_cite_templates(content) == ParseMatches(findall(content, 1))

----------------------------------------------------------------------------
(* load_zotero_library: reply is what self.zot.everything(...) did, the    *)
(* items of the library or an exception.                                   *)

load_zotero_library(items_before, reply) ==
    IF reply.ok THEN [zotero_items |-> reply.items, ret |-> reply.items]
    ELSE [zotero_items |-> items_before, ret |-> <<>>]

----------------------------------------------------------------------------
(* extract_wikiversity_citations.  A page is what its two extraction       *)
(* strategies find in it: the citations of its reference lists and those   *)
(* of its cite templates.  outcome is "ok", "fetch_error" (requests.get or *)
(* raise_for_status raised) or "parse_error" (an exception later in the    *)
(* try block, after citations were collected).                             *)

Outcomes == {"ok", "fetch_error", "parse_error"}

(* parse_wikiversity_page returning what it had collected when the         *)
(* exception came.                                                         *)
parse_wikiversity_page_KeepsPartial(page, outcome) ==
    IF outcome = "ok" THEN page.list \o page.templates
    ELSE IF outcome = "parse_error" THEN page.list ELSE <<>>

parse_wikiversity_page(page, outcome) ==
    IF outcome = "ok" THEN page.list \o page.templates ELSE <<>>

RECURSIVE ExtendAll(_, _, _, _)
ExtendAll(all_citations, urls, content, outcome) ==
    IF urls = <<>> THEN all_citations
    ELSE ExtendAll(all_citations \o parse_wikiversity_page(content[Head(urls)], outcome[Head(urls)]),
                   Tail(urls), content, outcome)

extract_wikiversity_citations(urls, content, outcome) ==
    ExtendAll(<<>>, urls, content, outcome)

----------------------------------------------------------------------------
(* The citations, library items, pages and thresholds of the model. *)

Cit(title, url, raw) == [title |-> title, url |-> url, raw_text |-> raw]
Item(title, url)     == [data |-> [title |-> title, url |-> url]]

cExact   == Cit(TitleExact, UrlA, "exact")
cNear    == Cit(TitleNear, UrlA2, "near")
cNoTitle == Cit(TitlePunct, UrlA, "untitled")
cFar     == Cit(TitleFar, NoUrl, "far")

Citations == {cExact, cNear, cNoTitle, cFar}

zExact   == Item(TitleExactRaw, NoUrl)
zNear    == Item(TitleNear, NoUrl)
zUrlOnly == Item(TitleOther, UrlA)
zNoTitle == Item(TitlePunct, UrlA)

LibraryItems == {zExact, zNear, zUrlOnly, zNoTitle}

Pages == {"P1", "P2"}

PageContent ==
    [p \in Pages |->
        IF p = "P1" THEN [list |-> <<cExact>>,   templates |-> <<cNear>>]
                    ELSE [list |-> <<cNoTitle>>, templates |-> <<cFar>>]]

(* Every way the pages can fail. *)
PageOutcomes == [Pages -> Outcomes]

Thresholds == {[n |-> t, d |-> 10] : t \in {0, 7, 8, 10}}

SeqUpTo(S, n) == UNION {[1..k -> S] : k \in 0..n}

LibraryReplies ==
    {[ok |-> TRUE, items |-> items] : items \in SeqUpTo(LibraryItems, MaxItems)}
    \cup {[ok |-> FALSE, items |-> <<>>]}

----------------------------------------------------------------------------
(* The comparator object: its methods called in any order. *)

NoRatio == [n |-> 0, d |-> 0]

IdleSim ==
    /\ str1 = <<>>
    /\ str2 = <<>>
    /\ score12 = NoRatio
    /\ score21 = NoRatio
    /\ scored = FALSE

IdleExtract ==
    /\ wikiversity_urls = <<>>
    /\ page_outcome = [p \in Pages |-> "ok"]

IdleMain ==
    /\ entry = "none"
    /\ pc = "none"
    /\ credentials = FALSE
    /\ output_formats = {}
    /\ api_reply = [ok |-> FALSE, items |-> <<>>]
    /\ constructed = FALSE
    /\ network = <<>>
    /\ stdout = <<>>
    /\ files = {}
    /\ exit_status = "running"

IdleTemplates ==
    /\ template = [type |-> <<>>, parts |-> <<>>]
    /\ context = [before |-> <<>>, after |-> <<>>]
    /\ page_content = <<>>
    /\ cite_templates = <<>>
    /\ templates_done = FALSE

IdleObject ==
    /\ zotero_items = <<>>
    /\ wikiversity_citations = <<>>
    /\ last_call = "none"
    /\ ret = <<>>
    /\ threshold = NoRatio

Init ==
    /\ IdleObject
    /\ IdleTemplates
    /\ IdleExtract
    /\ IdleSim
    /\ IdleMain

LoadZoteroLibrary ==
    \E reply \in LibraryReplies :
        /\ zotero_items' = load_zotero_library(zotero_items, reply).zotero_items
        /\ ret' = load_zotero_library(zotero_items, reply).ret
        /\ last_call' = "load"
        /\ threshold' = NoRatio
        /\ UNCHANGED <<wikiversity_citations, exVars, simVars, mainVars, tplVars>>

ExtractWith(urls, outcome) ==
    /\ wikiversity_citations' = extract_wikiversity_citations(urls, PageContent, outcome)
    /\ ret' = wikiversity_citations'
    /\ last_call' = "extract"
    /\ threshold' = NoRatio

ExtractWikiversityCitations ==
    \E urls \in SeqUpTo(Pages, MaxPages), outcome \in PageOutcomes :
        /\ ExtractWith(urls, outcome)
        /\ UNCHANGED <<zotero_items, exVars, simVars, mainVars, tplVars>>

CompareCitations ==
    \E thr \in Thresholds :
        /\ ret' = compare_citations(zotero_items, wikiversity_citations, thr)
        /\ last_call' = "compare"
        /\ threshold' = thr
        /\ UNCHANGED <<objVars, exVars, simVars, mainVars, tplVars>>

Next ==
    \/ LoadZoteroLibrary
    \/ ExtractWikiversityCitations
    \/ CompareCitations

Spec == Init /\ [][Next]_vars

----------------------------------------------------------------------------
(* Similarity scoring on its own: the arguments are drawn at the start.    *)

SimChars == {"a", "b", "c"}

InitSim ==
    /\ IdleObject
    /\ IdleTemplates
    /\ IdleExtract
    /\ IdleMain
    /\ str1 \in Str(SimChars, MaxStrLen)
    /\ str2 \in Str(SimChars, MaxStrLen)
    /\ score12 = NoRatio
    /\ score21 = NoRatio
    /\ scored = FALSE

Score ==
    /\ ~scored
    /\ score12' = similarity_score(str1, str2)
    /\ score21' = similarity_score(str2, str1)
    /\ scored' = TRUE
    /\ UNCHANGED <<objVars, cmpVars, exVars, str1, str2, mainVars, tplVars>>

NextSim == Score

SpecSim == InitSim /\ [][NextSim]_vars

----------------------------------------------------------------------------
(* Page extraction on its own: the pages and what each does are drawn at   *)
(* the start.                                                              *)

InitExtract ==
    /\ IdleObject
    /\ IdleTemplates
    /\ IdleSim
    /\ IdleMain
    /\ wikiversity_urls \in SeqUpTo(Pages, MaxPages)
    /\ page_outcome \in PageOutcomes

ExtractCall ==
    /\ last_call = "none"
    /\ ExtractWith(wikiversity_urls, page_outcome)
    /\ UNCHANGED <<zotero_items, exVars, simVars, mainVars, tplVars>>

NextExtract == ExtractCall

SpecExtract == InitExtract /\ [][NextExtract]_vars

----------------------------------------------------------------------------
(* The two scripts.  Each step of a main() is an action; the configuration *)
(* and what the network does are drawn at the start.  wikiversity_urls is  *)
(* config['wikiversity_urls'] for run_comparison.py and WIKIVERSITY_URLS   *)
(* for citation_comparator.py, whose first entry is a placeholder until    *)
(* the script is edited.                                                   *)

Placeholder == "YOUR_PAGE_HERE"

DefaultThreshold == [n |-> 8, d |-> 10]

ConfiguredUrls == {<<>>, <<"P1">>, <<"P2", "P1">>, <<Placeholder>>}

ConfiguredFormats == {{"json"}, {"markdown"}, {"json", "markdown", "csv"}}

ApiReplies ==
    {[ok |-> FALSE, items |-> <<>>],
     [ok |-> TRUE, items |-> <<>>],
     [ok |-> TRUE, items |-> <<zExact>>],
     [ok |-> TRUE, items |-> <<zUrlOnly, zExact>>]}

NetworkStates ==
    {[p \in Pages |-> "ok"],
     [p \in Pages |-> IF p = "P1" THEN "fetch_error" ELSE "ok"],
     [p \in Pages |-> "parse_error"]}

InitMain ==
    /\ IdleObject
    /\ IdleTemplates
    /\ IdleSim
    /\ entry \in {"run_comparison", "citation_comparator"}
    /\ pc = "start"
    /\ credentials \in BOOLEAN
    /\ wikiversity_urls \in ConfiguredUrls
    /\ (entry = "run_comparison" => Placeholder \notin Range(wikiversity_urls))
    /\ output_formats \in ConfiguredFormats
    /\ (entry = "citation_comparator" => output_formats = {"json"})
    /\ api_reply \in ApiReplies
    /\ page_outcome \in NetworkStates
    /\ constructed = FALSE
    /\ network = <<>>
    /\ stdout = <<>>
    /\ files = {}
    /\ exit_status = "running"

(* The status the process ends with: exit(main()) in run_comparison.py, a  *)
(* bare main() in citation_comparator.py, an uncaught exception in both.   *)
ProcessStatus ==
    CASE exit_status = "exception" -> 1
      [] entry = "run_comparison" /\ exit_status = "return 1" -> 1
      [] OTHER -> 0

Return(value) ==
    /\ pc' = "done"
    /\ exit_status' = value

Raise ==
    /\ pc' = "done"
    /\ exit_status' = "exception"

(* __init__ *)
Construct ==
    /\ constructed' = TRUE
    /\ zotero_items' = <<>>
    /\ wikiversity_citations' = <<>>

(* comparator.load_zotero_library() *)
CallLoad ==
    /\ network' = Append(network, "zotero")
    /\ zotero_items' = load_zotero_library(zotero_items, api_reply).zotero_items
    /\ stdout' = IF api_reply.ok THEN stdout ELSE Append(stdout, "Error loading Zotero library")

(* comparator.extract_wikiversity_citations(urls) *)
CallExtract ==
    /\ network' = network \o wikiversity_urls
    /\ wikiversity_citations' =
           extract_wikiversity_citations(wikiversity_urls, PageContent, page_outcome)

(* run_comparison.main *)
RunCheckCredentials ==
    /\ entry = "run_comparison"
    /\ pc = "start"
    /\ IF ~credentials
       THEN /\ stdout' = Append(stdout, "Error: Missing Zotero credentials")
            /\ Return("return 1")
       ELSE /\ stdout' = stdout
            /\ pc' = "construct"
            /\ exit_status' = exit_status
    /\ UNCHANGED <<tplVars, objVars, cmpVars, exVars, simVars, entry, credentials,
                   output_formats, api_reply, constructed, network, files>>

RunConstruct ==
    /\ entry = "run_comparison"
    /\ pc = "construct"
    /\ Construct
    /\ pc' = "load"
    /\ UNCHANGED <<tplVars, cmpVars, exVars, simVars, entry, credentials, output_formats,
                   api_reply, network, stdout, files, exit_status>>

RunLoad ==
    /\ entry = "run_comparison"
    /\ pc = "load"
    /\ CallLoad
    /\ pc' = "check_urls"
    /\ UNCHANGED <<tplVars, wikiversity_citations, cmpVars, exVars, simVars, entry, credentials,
                   output_formats, api_reply, constructed, files, exit_status>>

RunCheckUrls ==
    /\ entry = "run_comparison"
    /\ pc = "check_urls"
    /\ IF wikiversity_urls = <<>>
       THEN /\ stdout' = Append(stdout, "Error: No Wikiversity URLs configured")
            /\ Return("return 1")
       ELSE /\ stdout' = stdout
            /\ pc' = "extract"
            /\ exit_status' = exit_status
    /\ UNCHANGED <<tplVars, objVars, cmpVars, exVars, simVars, entry, credentials,
                   output_formats, api_reply, constructed, network, files>>

RunExtract ==
    /\ entry = "run_comparison"
    /\ pc = "extract"
    /\ CallExtract
    /\ pc' = "compare"
    /\ UNCHANGED <<tplVars, zotero_items, cmpVars, exVars, simVars, entry, credentials,
                   output_formats, api_reply, constructed, stdout, files, exit_status>>

RunCompare ==
    /\ entry = "run_comparison"
    /\ pc = "compare"
    /\ ret' = compare_citations(zotero_items, wikiversity_citations, DefaultThreshold)
    /\ last_call' = "compare"
    /\ threshold' = DefaultThreshold
    /\ pc' = "report"
    /\ UNCHANGED <<tplVars, objVars, exVars, simVars, entry, credentials, output_formats,
                   api_reply, constructed, network, stdout, files, exit_status>>

(* The report files of lines 98-111: json.dump takes any dictionary;       *)
(* save_markdown_report and save_csv_report open their file and then read  *)
(* results['summary'] and results['missing_from_zotero'].                  *)
ReportsWritten(results, formats) ==
    (IF "json" \in formats THEN {"results.json"} ELSE {})
    \cup (IF "markdown" \in formats THEN {"report.md"} ELSE {})
    \cup (IF "csv" \in formats /\ ("markdown" \notin formats \/ ~IsEmptyDict(results))
          THEN {"missing_citations.csv"} ELSE {})

RunWriteReports ==
    /\ entry = "run_comparison"
    /\ pc = "report"
    /\ files' = files \cup ReportsWritten(ret, output_formats)
    /\ IF IsEmptyDict(ret) /\ output_formats \cap {"markdown", "csv"} # {}
       THEN Raise
       ELSE /\ pc' = "summary"
            /\ exit_status' = exit_status
    /\ UNCHANGED <<tplVars, objVars, cmpVars, exVars, simVars, entry, credentials,
                   output_formats, api_reply, constructed, network, stdout>>

RunSummary ==
    /\ entry = "run_comparison"
    /\ pc = "summary"
    /\ IF IsEmptyDict(ret)
       THEN /\ stdout' = stdout
            /\ Raise
       ELSE /\ stdout' = Append(stdout, "Comparison complete")
            /\ Return("return 0")
    /\ UNCHANGED <<tplVars, objVars, cmpVars, exVars, simVars, entry, credentials,
                   output_formats, api_reply, constructed, network, files>>

(* citation_comparator.main *)
CliCheckCredentials ==
    /\ entry = "citation_comparator"
    /\ pc = "start"
    /\ IF ~credentials
       THEN /\ stdout' = Append(stdout, "Please set your Zotero credentials")
            /\ Return("return None")
       ELSE /\ stdout' = stdout
            /\ pc' = "check_urls"
            /\ exit_status' = exit_status
    /\ UNCHANGED <<tplVars, objVars, cmpVars, exVars, simVars, entry, credentials,
                   output_formats, api_reply, constructed, network, files>>

CliCheckUrls ==
    /\ entry = "citation_comparator"
    /\ pc = "check_urls"
    /\ IF wikiversity_urls = <<>> \/ wikiversity_urls[1] = Placeholder
       THEN /\ stdout' = Append(stdout, "Please add your Wikiversity URLs")
            /\ Return("return None")
       ELSE /\ stdout' = stdout
            /\ pc' = "construct"
            /\ exit_status' = exit_status
    /\ UNCHANGED <<tplVars, objVars, cmpVars, exVars, simVars, entry, credentials,
                   output_formats, api_reply, constructed, network, files>>

CliConstruct ==
    /\ entry = "citation_comparator"
    /\ pc = "construct"
    /\ Construct
    /\ pc' = "load"
    /\ UNCHANGED <<tplVars, cmpVars, exVars, simVars, entry, credentials, output_formats,
                   api_reply, network, stdout, files, exit_status>>

CliLoad ==
    /\ entry = "citation_comparator"
    /\ pc = "load"
    /\ CallLoad
    /\ pc' = "extract"
    /\ UNCHANGED <<tplVars, wikiversity_citations, cmpVars, exVars, simVars, entry, credentials,
                   output_formats, api_reply, constructed, files, exit_status>>

CliExtract ==
    /\ entry = "citation_comparator"
    /\ pc = "extract"
    /\ CallExtract
    /\ pc' = "compare"
    /\ UNCHANGED <<tplVars, zotero_items, cmpVars, exVars, simVars, entry, credentials,
                   output_formats, api_reply, constructed, stdout, files, exit_status>>

CliCompare ==
    /\ entry = "citation_comparator"
    /\ pc = "compare"
    /\ ret' = compare_citations(zotero_items, wikiversity_citations, DefaultThreshold)
    /\ last_call' = "compare"
    /\ threshold' = DefaultThreshold
    /\ pc' = "print"
    /\ UNCHANGED <<tplVars, objVars, exVars, simVars, entry, credentials, output_formats,
                   api_reply, constructed, network, stdout, files, exit_status>>

(* comparator.print_results(results), then export_missing_citations. *)
CliPrintAndExport ==
    /\ entry = "citation_comparator"
    /\ pc = "print"
    /\ IF IsEmptyDict(ret)
       THEN /\ stdout' = stdout
            /\ files' = files
            /\ Raise
       ELSE /\ stdout' = Append(stdout, "SUMMARY")
            /\ files' = files \cup {"missing_citations.json"}
            /\ Return("return None")
    /\ UNCHANGED <<tplVars, objVars, cmpVars, exVars, simVars, entry, credentials,
                   output_formats, api_reply, constructed, network>>

NextMain ==
    \/ RunCheckCredentials
    \/ RunConstruct
    \/ RunLoad
    \/ RunCheckUrls
    \/ RunExtract
    \/ RunCompare
    \/ RunWriteReports
    \/ RunSummary
    \/ CliCheckCredentials
    \/ CliCheckUrls
    \/ CliConstruct
    \/ CliLoad
    \/ CliExtract
    \/ CliCompare
    \/ CliPrintAndExport

SpecMain == InitMain /\ [][NextMain]_vars

----------------------------------------------------------------------------
(* Template extraction on its own: a page holding one cite template made   *)
(* of a type and up to MaxParts parts, possibly between two others, is     *)
(* drawn at the start.  A part is given with its text and with the field   *)
(* it stands for: key is "" for a part that sets no known field.  Values   *)
(* hold no braces: "}" cannot occur inside a template the pattern matches. *)

Part(text, key, value) == [text |-> text, key |-> key, value |-> value]

TemplateParts ==
    { Part(<<"title", "=", "A">>, "title", <<"A">>),
      Part(<<" ", "Title", " ", "=", " ", "A", " ", "B", " ">>, "title", <<"A", " ", "B">>),
      Part(<<"title", "=", " ">>, "title", <<>>),
      Part(<<"title", "=", "A", "=", "B">>, "title", <<"A", "=", "B">>),
      Part(<<"URL", "=", "U">>, "url", <<"U">>),
      Part(<<"author", "=">>, "author", <<>>),
      Part(<<"last", "=", "Y">>, "author", <<"Y">>),
      Part(<<"first", "=", "X">>, "author", <<"X">>),
      Part(<<"date", "=", "D">>, "date", <<"D">>),
      Part(<<"year", "=", "E">>, "date", <<"E">>),
      Part(<<"journal", "=", "J">>, "journal", <<"J">>),
      Part(<<"website", "=", "W">>, "journal", <<"W">>),
      Part(<<"pages", "=", "A">>, "", <<"A">>),
      Part(<<"A">>, "", <<>>) }

(* The type as written and as recorded: the first part, stripped, without  *)
(* the lower-case prefix "cite ".                                          *)
TemplateTypes ==
    { [text |-> <<"cite", " ", "journal", " ">>, type |-> <<"journal">>],
      [text |-> <<"Cite", " ", "web">>, type |-> <<"Cite", " ", "web">>] }

Templates == [type : TemplateTypes, parts : SeqUpTo(TemplateParts, MaxParts)]

RECURSIVE PartsText(_)
PartsText(parts) ==
    IF parts = <<>> THEN <<>> ELSE <<"|">> \o Head(parts).text \o PartsText(Tail(parts))

TemplateText(t) == <<"{", "{">> \o t.type.text \o PartsText(t.parts) \o <<"}", "}">>

TitledNeighbour ==
    [type  |-> [text |-> <<"cite", " ", "web">>, type |-> <<"web">>],
     parts |-> <<Part(<<"title", "=", "N">>, "title", <<"N">>)>>]

UntitledNeighbour ==
    [type  |-> [text |-> <<"cite", " ", "web">>, type |-> <<"web">>],
     parts |-> <<Part(<<"URL", "=", "U">>, "url", <<"U">>)>>]

Contexts ==
    { [before |-> <<>>, after |-> <<>>],
      [before |-> <<TitledNeighbour>>, after |-> <<>>],
      [before |-> <<UntitledNeighbour>>, after |-> <<TitledNeighbour>>] }

RECURSIVE PageText(_)
PageText(ts) ==
    IF ts = <<>> THEN <<"x">>
    ELSE <<"x", " ">> \o TemplateText(Head(ts)) \o PageText(Tail(ts))

InitTemplates ==
    /\ IdleObject
    /\ IdleExtract
    /\ IdleSim
    /\ IdleMain
    /\ template \in Templates
    /\ context \in Contexts
    /\ page_content = PageText(context.before \o <<template>> \o context.after)
    /\ cite_templates = <<>>
    /\ templates_done = FALSE

ExtractCiteTemplates ==
    /\ ~templates_done
    /\ cite_templates' = extract_cite_templates(page_content)
    /\ templates_done' = TRUE
    /\ UNCHANGED <<objVars, cmpVars, exVars, simVars, mainVars, template, context, page_content>>

NextTemplates == ExtractCiteTemplates

SpecTemplates == InitTemplates /\ [][NextTemplates]_vars

----------------------------------------------------------------------------
(* Properties of compare_citations and find_matching_zotero_items *)

HasLists(r) ==
    {"missing_from_zotero", "found_in_zotero", "potential_matches", "summary"} \subseteq DOMAIN r

InMissing(r, c)   == \E k \in 1..Len(r.missing_from_zotero) : r.missing_from_zotero[k] = c
InFound(r, c)     == \E k \in 1..Len(r.found_in_zotero) :
                         r.found_in_zotero[k].wikiversity_citation = c
InPotential(r, c) == \E k \in 1..Len(r.potential_matches) :
                         r.potential_matches[k].wikiversity_citation = c

ExactlyOne(p, q, r) == (p /\ ~q /\ ~r) \/ (~p /\ q /\ ~r) \/ (~p /\ ~q /\ r)

(* C1: whatever the citation list and the library, empty ones included,    *)
(* the result of compare_citations places every input citation in exactly  *)
(* one of found_in_zotero, missing_from_zotero and potential_matches, its   *)
(* summary counts are the lengths of the three lists, and found + missing  *)
(* + potential = total_wikiversity_citations = the number of citations.    *)
C1_EveryCitationInExactlyOneList ==
    last_call = "compare" =>
        /\ HasLists(ret)
        /\ \A c \in Range(wikiversity_citations) :
               ExactlyOne(InFound(ret, c), InMissing(ret, c), InPotential(ret, c))
        /\ ret.summary.found_in_zotero = Len(ret.found_in_zotero)
        /\ ret.summary.missing_from_zotero = Len(ret.missing_from_zotero)
        /\ ret.summary.potential_matches = Len(ret.potential_matches)
        /\ ret.summary.total_wikiversity_citations = Len(wikiversity_citations)
        /\ Len(ret.found_in_zotero) + Len(ret.missing_from_zotero)
              + Len(ret.potential_matches) = Len(wikiversity_citations)

(* The url_match of the specification: both URLs present, and equal or     *)
(* more than 0.9 similar.                                                  *)
UrlsMatch(u1, u2) ==
    /\ u1 # <<>>
    /\ u2 # <<>>
    /\ (u1 = u2 \/ GT(ratio(u1, u2), [n |-> 9, d |-> 10]))

TitleSimilarity(c, item) == ratio(normalize_title(c.title), normalize_title(item.data.title))

Descending(ms) ==
    \A i \in 1..(Len(ms) - 1) : GE(ms[i].title_similarity, ms[i + 1].title_similarity)

(* C2: a citation with a non-empty title and no URL match whose best title *)
(* similarity over the library is positive and below the threshold is      *)
(* placed in potential_matches, with at most 3 candidates in descending    *)
(* order of title_similarity.                                              *)
C2_BelowThresholdIsAmbiguous ==
    (last_call = "compare" /\ zotero_items # <<>>) =>
        \A c \in Range(wikiversity_citations) :
            ( /\ normalize_title(c.title) # <<>>
              /\ \E z \in Range(zotero_items) :
                     /\ normalize_title(z.data.title) # <<>>
                     /\ TitleSimilarity(c, z).n > 0
              /\ \A z \in Range(zotero_items) :
                     /\ ~UrlsMatch(c.url, z.data.url)
                     /\ ~GE(TitleSimilarity(c, z), threshold) )
            => /\ HasLists(ret)
               /\ \E k \in 1..Len(ret.potential_matches) :
                      /\ ret.potential_matches[k].wikiversity_citation = c
                      /\ Len(ret.potential_matches[k].possible_matches) <= 3
                      /\ Descending(ret.potential_matches[k].possible_matches)

(* The items among the matches find_matching_zotero_items returned. *)
CandidateItems(matches) == {matches[k].zotero_item : k \in 1..Len(matches)}

IsCandidate(items, c, thr, z) ==
    z \in CandidateItems(find_matching_zotero_items(items, c, thr))

Qualifies(c, thr, z) == GE(TitleSimilarity(c, z), thr) \/ UrlsMatch(c.url, z.data.url)

(* The candidates among items are exactly its qualifying items. *)
CandidatesAreQualifying(items, c, thr, candidates) ==
    \A z \in Range(items) : z \in candidates <=> Qualifies(c, thr, z)

(* The candidates among items are exactly its titled qualifying items. *)
CandidatesAreTitledAndQualifying(items, c, thr, candidates) ==
    \A z \in Range(items) :
        z \in candidates <=> (normalize_title(z.data.title) # <<>> /\ Qualifies(c, thr, z))

(* C5 as claimed: for a citation whose normalized title is non-empty, a    *)
(* library item is a candidate if and only if its title_similarity is at   *)
(* least the threshold or its url_match is true, whatever its title.       *)
C5_CandidateIffQualifies ==
    \A c \in Citations, thr \in Thresholds :
        normalize_title(c.title) # <<>> =>
            CandidatesAreQualifying(
                zotero_items, c, thr,
                CandidateItems(find_matching_zotero_items(zotero_items, c, thr)))

(* C5 as amended: for a citation whose normalized title is non-empty, a    *)
(* library item is a candidate if and only if its own normalized title is  *)
(* non-empty and its title_similarity is at least the threshold or its     *)
(* url_match is true; an item without a title is never a candidate.        *)
C5_CandidateIffTitledAndQualifies ==
    \A c \in Citations, thr \in Thresholds :
        normalize_title(c.title) # <<>> =>
            CandidatesAreTitledAndQualifying(
                zotero_items, c, thr,
                CandidateItems(find_matching_zotero_items(zotero_items, c, thr)))

(* A comparison has run on a library holding an item that is a candidate   *)
(* by its URL alone and an untitled item with the same URL that is not.    *)
C5_Witness ==
    /\ last_call = "compare"
    /\ threshold = [n |-> 8, d |-> 10]
    /\ cExact \in Range(wikiversity_citations)
    /\ {zUrlOnly, zNoTitle} \subseteq Range(zotero_items)
    /\ IsCandidate(zotero_items, cExact, threshold, zUrlOnly)
    /\ ~GE(TitleSimilarity(cExact, zUrlOnly), threshold)
    /\ ~IsCandidate(zotero_items, cExact, threshold, zNoTitle)
    /\ InFound(ret, cExact)

(* C6: a citation whose normalized title is empty is always classified     *)
(* missing by compare_citations, whatever its URL and the library.         *)
C6_UntitledIsMissing ==
    last_call = "compare" =>
        \A c \in Range(wikiversity_citations) :
            normalize_title(c.title) = <<>> => (HasLists(ret) /\ InMissing(ret, c))

(* What holds of C6: when compare_citations classifies at all, an untitled *)
(* citation is missing.                                                    *)
UntitledIsMissingWhenClassified ==
    (last_call = "compare" /\ HasLists(ret)) =>
        \A c \in Range(wikiversity_citations) :
            normalize_title(c.title) = <<>> => InMissing(ret, c)

(* Some library item with a non-empty normalized title has a title        *)
(* similarity of at least the threshold or a matching URL.                 *)
SomeTitledItemQualifies(items, c, thr) ==
    \E z \in Range(items) : normalize_title(z.data.title) # <<>> /\ Qualifies(c, thr, z)

HasCandidates(matches) == matches # <<>>

(* C11: in every result of compare_citations the potential_matches list is *)
(* empty (a result without lists has no potential match either); every     *)
(* citation for which find_matching_zotero_items returns a candidate is     *)
(* classified found; and a citation is found if and only if some library   *)
(* item with a non-empty title qualifies, and missing otherwise.           *)
C11_PotentialMatchesAlwaysEmpty ==
    last_call = "compare" =>
        /\ HasLists(ret) => ret.potential_matches = <<>>
        /\ \A c \in Range(wikiversity_citations) :
               /\ HasCandidates(find_matching_zotero_items(zotero_items, c, threshold))
                      => (HasLists(ret) /\ InFound(ret, c))
               /\ (HasLists(ret) /\ InFound(ret, c))
                      <=> SomeTitledItemQualifies(zotero_items, c, threshold)
               /\ (HasLists(ret) /\ InMissing(ret, c))
                      <=> ~SomeTitledItemQualifies(zotero_items, c, threshold)

(* What holds of C11: when compare_citations classifies at all, no         *)
(* citation is a potential match, a citation with a candidate is found, a  *)
(* citation with a non-empty normalized title is found if and only if some *)
(* titled item qualifies, and every other citation is missing.             *)
PotentialMatchesEmptyWhenClassified ==
    (last_call = "compare" /\ HasLists(ret)) =>
        /\ ret.potential_matches = <<>>
        /\ \A c \in Range(wikiversity_citations) :
               /\ HasCandidates(find_matching_zotero_items(zotero_items, c, threshold))
                      => InFound(ret, c)
               /\ InFound(ret, c)
                      <=> /\ normalize_title(c.title) # <<>>
                          /\ SomeTitledItemQualifies(zotero_items, c, threshold)
               /\ InMissing(ret, c) <=> ~InFound(ret, c)

----------------------------------------------------------------------------
(* Properties of extract_wikiversity_citations *)

RECURSIVE Flatten(_)
Flatten(lists) == IF lists = <<>> THEN <<>> ELSE Head(lists) \o Flatten(Tail(lists))

CitationsOf(p) == PageContent[p].list \o PageContent[p].templates

(* C7: the list extract_wikiversity_citations returns and stores is the    *)
(* concatenation, in page order, of the citations of the pages that did    *)
(* not fail; a failing page contributes nothing and stops nothing.         *)
C7_FailedPagesContributeNothing ==
    last_call = "extract" =>
        LET good == SelectSeq(wikiversity_urls, LAMBDA p : page_outcome[p] = "ok")
            expected == Flatten([i \in 1..Len(good) |-> CitationsOf(good[i])])
        IN  /\ ret = expected
            /\ wikiversity_citations = expected

(* A page failed while parsing, after a page was read and before another. *)
C7_Witness ==
    /\ last_call = "extract"
    /\ Len(wikiversity_urls) >= 2
    /\ page_outcome[wikiversity_urls[1]] = "parse_error"
    /\ page_outcome[wikiversity_urls[2]] = "ok"
    /\ wikiversity_citations = CitationsOf(wikiversity_urls[2])
    /\ wikiversity_citations # <<>>

----------------------------------------------------------------------------
(* Properties of the scripts *)

Printed(message) == message \in Range(stdout)

(* C3: with an empty page list run_comparison.main reports the             *)
(* configuration error and returns non-zero before any network activity:   *)
(* no library load and no page fetch has happened when it ends.            *)
C3_EmptyPageListBeforeNetwork ==
    (entry = "run_comparison" /\ credentials /\ wikiversity_urls = <<>> /\ pc = "done") =>
        /\ Printed("Error: No Wikiversity URLs configured")
        /\ ProcessStatus # 0
        /\ network = <<>>

(* C4: when loading the library fails the run still completes: the         *)
(* citations are reconciled against the empty library (every one of them   *)
(* missing), the summary is printed, the reports are written and main      *)
(* returns 0.                                                              *)
C4_LoadFailureRunCompletes ==
    ( /\ entry = "run_comparison"
      /\ credentials
      /\ wikiversity_urls # <<>>
      /\ ~api_reply.ok
      /\ pc = "done" ) =>
        /\ exit_status = "return 0"
        /\ HasLists(ret)
        /\ ret.missing_from_zotero = wikiversity_citations
        /\ Printed("Comparison complete")
        /\ "results.json" \in files <=> "json" \in output_formats
        /\ "report.md" \in files <=> "markdown" \in output_formats
        /\ "missing_citations.csv" \in files <=> "csv" \in output_formats

(* C8: without credentials either script prints a diagnostic, constructs   *)
(* no comparator, makes no network request and exits with a non-zero       *)
(* status; with credentials and pages a run that completes exits with 0.   *)
C8_MissingCredentialsExitNonZero ==
    pc = "done" =>
        /\ ~credentials =>
               /\ stdout # <<>>
               /\ ~constructed
               /\ network = <<>>
               /\ ProcessStatus # 0
        /\ (credentials /\ exit_status \in {"return 0", "return None"}
                /\ wikiversity_urls # <<>> /\ Placeholder \notin Range(wikiversity_urls))
               => ProcessStatus = 0

----------------------------------------------------------------------------
(* Properties of template extraction *)

(* The values, in order of appearance, of the parts of t that stand for    *)
(* the field key.                                                          *)
ValuesOf(t, key) ==
    LET fields == SelectSeq(t.parts, LAMBDA part : part.key = key)
    IN  [i \in 1..Len(fields) |-> fields[i].value]

LastValue(t, key) ==
    IF ValuesOf(t, key) = <<>> THEN <<>> ELSE ValuesOf(t, key)[Len(ValuesOf(t, key))]

RECURSIVE DropEmptyHead(_)
DropEmptyHead(values) ==
    IF values # <<>> /\ Head(values) = <<>> THEN DropEmptyHead(Tail(values)) ELSE values

Fields(record) ==
    [type |-> record.type, title |-> record.title, author |-> record.author,
     url |-> record.url, date |-> record.date, journal |-> record.journal]

(* What the claim gives for one template: nothing without a title, else    *)
(* one record.                                                             *)
ExpectedRecords(t) ==
    IF LastValue(t, "title") = <<>> THEN <<>>
    ELSE << [type    |-> t.type.type,
             title   |-> LastValue(t, "title"),
             author  |-> Join(DropEmptyHead(ValuesOf(t, "author")), <<" ">>),
             url     |-> LastValue(t, "url"),
             date    |-> LastValue(t, "date"),
             journal |-> LastValue(t, "journal")] >>

(* C10: a cite template yields a record if and only if its key=value       *)
(* fields give a non-empty title, the title given being the value of the   *)
(* last title field; an untitled template is dropped without a trace and   *)
(* without touching the records of the templates around it; a titled one   *)
(* yields one record with its type, the values of its title, url, date and *)
(* journal fields, and the values of its author, last and first fields     *)
(* joined by spaces in order of appearance.                                *)
C10_RecordIffTitled ==
    templates_done =>
        [i \in 1..Len(cite_templates) |-> Fields(cite_templates[i])]
            = Flatten([i \in 1..Len(context.before) |-> ExpectedRecords(context.before[i])])
              \o ExpectedRecords(template)
              \o Flatten([i \in 1..Len(context.after) |-> ExpectedRecords(context.after[i])])

(* A template with a title and two author fields gave its record, the      *)
(* untitled template before it gave none, and the one after it gave its    *)
(* own.                                                                    *)
C10_Witness ==
    /\ templates_done
    /\ context.before = <<UntitledNeighbour>>
    /\ context.after = <<TitledNeighbour>>
    /\ Len(cite_templates) = 2
    /\ cite_templates[1].type = <<"journal">>
    /\ cite_templates[1].title = <<"A", " ", "B">>
    /\ cite_templates[1].author = <<"X", " ", "Y">>
    /\ cite_templates[2].title = <<"N">>

----------------------------------------------------------------------------
(* Properties of similarity_score *)

(* C9: similarity_score(a, b) = similarity_score(b, a) for all strings. *)
C9_SimilaritySymmetric ==
    scored => EQ(score12, score21)

====
